---- MODULE Spec2Model ----
(***************************************************************************)
(* Client-side controller of the resume optimizer (src/static/js/app.js): *)
(* section visibility, file selection, the submit handler with its two    *)
(* await points, the loading animation's timer chain and renderResults.   *)
(*                                                                         *)
(* Timers are untimed: a pending setTimeout may fire at any later step.    *)
(* Strings the code inspects character by character (file names, form     *)
(* fields) are sequences of one-character strings.                         *)
(***************************************************************************)
EXTENDS Naturals, Integers, Sequences, FiniteSets, TLC

VARIABLES
    selectedFile,        \* let selectedFile: <<>> is null, else the file's name
    dropZoneContent,     \* .drop-zone-content style.display
    fileSelected,        \* DOM.fileSelected.style.display
    fileName,            \* DOM.fileName.textContent
    display,             \* style.display of the four sections
    analyzeBtnDisabled,  \* DOM.analyzeBtn.disabled
    pc,                  \* position of the async submit handler
    inflight,            \* the request fetch() has issued and not yet settled
    responseOk,          \* response.ok of the response being read
    fetchCount,          \* number of fetch() calls so far
    pending,             \* setTimeout callbacks scheduled and not fired/cleared:
                         \* [run, step, delay], step the closure's currentStep
    loadingInterval,     \* let loadingInterval: the last handle stored
    stepClass,           \* classList of DOM.steps[0..4]
    loaderTitle,         \* DOM.loaderTitle.textContent
    panel,               \* style.display of the four conditional panels
    downloadsButtons,    \* DOM.downloadsButtons.innerHTML, as entries
    errorMessage,        \* DOM.errorMessage.textContent
    outcome,             \* history: the kind of response the latest submission got
    lastError,           \* history: the error field of the latest parsed body
    renderCount,         \* history: renderResults calls of the latest submission
    lastRendered,        \* history: the result renderResults was last called with,
                         \* forgotten on restart and on the next submission
    showCalled,          \* history: showSection has been called
    alert,               \* message of the alert() raised by the last handler
    submittedChecked,    \* history: DOM.autoApply.checked as read by the submit
                         \* whose request is in flight
    \* animateScore on one score ring
    scoreInput,          \* the score field of the result (NoScore when absent)
    targetScore,         \* targetScore
    color,               \* fillCircle.style.stroke / valueEl.style.color
    strokeDashoffset,    \* fillCircle.style.strokeDashoffset, in 1/10000
    strokePending,       \* the 200 ms timeout is scheduled
    current,             \* current, in 1/duration (increment is 16/duration
                         \* of targetScore)
    valueText,           \* valueEl.textContent
    counter,             \* the setInterval is running
    ticks,               \* history: callbacks of the interval so far
    closures,            \* the closures of earlier animateScore calls on the
                         \* same elements, oldest first
    \* formatMarkdown
    text,                \* the argument, as characters
    html,                \* the value returned, as characters
    formatted            \* formatMarkdown has returned

vars == <<selectedFile, dropZoneContent, fileSelected, fileName, display,
          analyzeBtnDisabled, pc, inflight, responseOk, fetchCount,
          pending, loadingInterval, stepClass, loaderTitle,
          panel, downloadsButtons, errorMessage, outcome, lastError, renderCount,
          lastRendered, showCalled, alert, submittedChecked,
          scoreInput, targetScore, color, strokeDashoffset, strokePending,
          current, valueText, counter, ticks, closures, text, html, formatted>>

fileVars == <<selectedFile, dropZoneContent, fileSelected, fileName>>
loaderVars == <<pending, loadingInterval, stepClass, loaderTitle>>
resultVars == <<panel, downloadsButtons, lastRendered, renderCount>>
requestVars == <<pc, inflight, responseOk, fetchCount, outcome, lastError,
                 submittedChecked>>
scoreVars == <<scoreInput, targetScore, color, strokeDashoffset, strokePending,
               current, valueText, counter, ticks, closures>>
markdownVars == <<text, html, formatted>>
controllerVars == <<selectedFile, dropZoneContent, fileSelected, fileName, display,
                    analyzeBtnDisabled, pc, inflight, responseOk, fetchCount,
                    pending, loadingInterval, stepClass, loaderTitle,
                    panel, downloadsButtons, errorMessage, outcome, lastError,
                    renderCount, lastRendered, showCalled, alert, submittedChecked>>

----------------------------------------------------------------------------
(* Bounds *)

\* Submissions accepted in one behaviour.
MaxRuns == 2

\* Fragments a text given to formatMarkdown is put together from.
MaxParts == 3

\* Results rendered into the same score elements in one behaviour.
MaxRenders == 2

----------------------------------------------------------------------------
(* Values *)

Sections == {"upload", "loading", "results", "error"}
Panels == {"atsWarnings", "interview", "coverLetter", "downloadsBar"}

NoFile == <<>>
DocxSuffix == <<".", "d", "o", "c", "x">>

\* File names offered by the picker or dropped on the drop zone.
FileNames == { <<"a", ".", "d", "o", "c", "x">>,
               <<"b", ".", "d", "o", "c", "x">>,
               <<"a", ".", "D", "O", "C", "X">>,
               <<"d", "o", "c", "x">> }

\* Contents of the job title / job description inputs at submit time.
TextInputs == { <<>>, <<" ", " ">>, <<" ", "x", " ">> }

NumSteps == 5
titles == << "Uploading your resume...",
             "Researching job market & company...",
             "Running AI gap analysis...",
             "Scoring & generating suggestions...",
             "Building optimized documents..." >>
durations == <<1500, 8000, 12000, 10000, 5000>>

\* JavaScript arrays are 0-based.
At(arr, i) == arr[i + 1]

NoTimer == [run |-> 0, step |-> 0, delay |-> 0]
NoRequest == [resume |-> NoFile, job_title |-> <<>>, job_description |-> <<>>,
              auto_apply |-> ""]

\* A JSON value used where the code expects an array of strings.
Absent == [kind |-> "absent", length |-> 0]
EmptyArray == [kind |-> "array", length |-> 0]
TwoItems == [kind |-> "array", length |-> 2]
AString == [kind |-> "string", length |-> 3]
ListVals == {Absent, EmptyArray, TwoItems, AString}

Kinds == <<"optimized_resume", "interview_prep", "cover_letter", "talking_points">>
KindSet == {Kinds[i] : i \in 1..Len(Kinds)}
DownloadSets == { {}, {"cover_letter"}, {"optimized_resume", "talking_points"}, KindSet }

DocxAlert == "Please upload a .docx file"
UploadAlert == "Please upload your resume (.docx)"
FillAlert == "Please fill in the Job Title and Job Description"

\* An absent score field.
NoScore == -1
Scores == 0..100
\* 2 * pi * 52, in 1/10000
circumference == 3267300
duration == 1500
\* the 16 of duration / 16
frame == 16

GenericMessage == "Analysis failed"
ServerErrors == {"bad file", "quota exceeded"}
TransportMessages == {"Failed to fetch", "NetworkError when attempting to fetch resource."}
ParseMessages == {"Unexpected token < in JSON at position 0"}
NullMessage == "Cannot read properties of null (reading 'error')"
MapMessage == "questions.map is not a function"

\* Parsed response bodies: null, or an object with every field optional
\* ("" stands for an absent or empty string field).
NullBody == [null |-> TRUE, error |-> "", ats_warnings |-> Absent,
             interview_questions |-> Absent, cover_letter |-> "", downloads |-> {}]
Body(error, warnings, questions, letter, dl) ==
    [null |-> FALSE, error |-> error, ats_warnings |-> warnings,
     interview_questions |-> questions, cover_letter |-> letter, downloads |-> dl]
ObjectBodies ==
    { Body("", Absent, Absent, "", {}),
      Body("", TwoItems, Absent, "", {}),
      Body("", Absent, AString, "", {}),
      Body("", Absent, EmptyArray, "Dear team", {"cover_letter"}),
      Body("", Absent, TwoItems, "", {"optimized_resume", "talking_points"}),
      Body("", TwoItems, TwoItems, "Dear team", KindSet),
      Body("bad file", Absent, Absent, "", {}),
      Body("quota exceeded", TwoItems, TwoItems, "Dear team", {"cover_letter"}) }
Bodies == {NullBody} \cup ObjectBodies

----------------------------------------------------------------------------
(* Pure helpers *)

RECURSIVE trimStart(_)
trimStart(s) == IF s # <<>> /\ Head(s) = " " THEN trimStart(Tail(s)) ELSE s

RECURSIVE trimEnd(_)
trimEnd(s) ==
    IF s # <<>> /\ s[Len(s)] = " " THEN trimEnd(SubSeq(s, 1, Len(s) - 1)) ELSE s

\* String.prototype.trim
trim(s) == trimEnd(trimStart(s))

endsWithIgnoreCase(s, suffix) ==
    LET lower == [i \in DOMAIN s |->
                    CASE s[i] = "D" -> "d" [] s[i] = "O" -> "o"
                      [] s[i] = "C" -> "c" [] s[i] = "X" -> "x"
                      [] OTHER -> s[i]]
    IN  /\ Len(s) >= Len(suffix)
        /\ SubSeq(lower, Len(s) - Len(suffix) + 1, Len(s)) = suffix

\* String.prototype.endsWith
endsWith(s, suffix) ==
    /\ Len(s) >= Len(suffix)
    /\ SubSeq(s, Len(s) - Len(suffix) + 1, Len(s)) = suffix

\* x || [] for a JSON value x
orEmptyArray(v) ==
    IF v.kind = "absent" \/ (v.kind = "string" /\ v.length = 0)
    THEN EmptyArray ELSE v

\* The controls of a section can be used only while the section is displayed.
Clickable(section) == display[section] = "block"

----------------------------------------------------------------------------
(* Section visibility *)

showSectionKeepOthers(d, section) == [d EXCEPT ![section] = "block"]

showSection(d, section) ==
    [s \in Sections |-> IF s = section THEN "block" ELSE "none"]

----------------------------------------------------------------------------
(* File selection *)

handleFile(file) ==
    IF ~endsWith(file, DocxSuffix)
    THEN /\ alert' = DocxAlert
         /\ UNCHANGED fileVars
    ELSE /\ selectedFile' = file
         /\ dropZoneContent' = "none"
         /\ fileSelected' = "flex"
         /\ fileName' = file
         /\ alert' = ""

clearFile ==
    /\ selectedFile' = NoFile
    /\ dropZoneContent' = "flex"
    /\ fileSelected' = "none"
    /\ UNCHANGED fileName

\* drop on the drop zone / change of the file input
SelectFile ==
    /\ Clickable("upload")
    /\ UNCHANGED <<scoreVars, markdownVars>>
    /\ \E file \in FileNames : handleFile(file)
    /\ UNCHANGED <<display, analyzeBtnDisabled, errorMessage, showCalled>>
    /\ UNCHANGED <<loaderVars, resultVars, requestVars>>

\* click on the remove button of the selected-file chip
RemoveFile ==
    /\ Clickable("upload")
    /\ fileSelected = "flex"
    /\ UNCHANGED <<scoreVars, markdownVars>>
    /\ clearFile
    /\ alert' = ""
    /\ UNCHANGED <<display, analyzeBtnDisabled, errorMessage, showCalled>>
    /\ UNCHANGED <<loaderVars, resultVars, requestVars>>

----------------------------------------------------------------------------
(* Loading animation *)

startLoadingAnimation ==
    LET run == fetchCount + 1
        timer == [run |-> run, step |-> 0, delay |-> At(durations, 0)]
    IN  /\ stepClass' = [i \in 0..(NumSteps - 1) |->
                            IF i = 0 THEN {"active"} ELSE {}]
        /\ loaderTitle' = At(titles, 0)
        /\ pending' = pending \cup {timer}
        /\ loadingInterval' = timer

advanceStepAlwaysReschedule(t) ==
    LET run == t.run
        cs == t.step
        timer == [run |-> run, step |-> cs + 1, delay |-> At(durations, cs + 1)]
    IN  IF cs < NumSteps - 1
        THEN /\ stepClass' = [stepClass EXCEPT
                                ![cs] = (@ \ {"active"}) \cup {"done"},
                                ![cs + 1] = @ \cup {"active"}]
             /\ loaderTitle' = At(titles, cs + 1)
             /\ pending' = (pending \ {t}) \cup {timer}
             /\ loadingInterval' = timer
        ELSE /\ pending' = pending \ {t}
             /\ UNCHANGED <<stepClass, loaderTitle, loadingInterval>>

\* The callback of the timer t of the closure t.run.
advanceStep(t) ==
    LET run == t.run
        cs == t.step
        timer == [run |-> run, step |-> cs + 1, delay |-> At(durations, cs + 1)]
    IN  IF cs < NumSteps - 1
        THEN /\ stepClass' = [stepClass EXCEPT
                                ![cs] = (@ \ {"active"}) \cup {"done"},
                                ![cs + 1] = @ \cup {"active"}]
             /\ loaderTitle' = At(titles, cs + 1)
             /\ IF cs + 1 < NumSteps - 1
                THEN /\ pending' = (pending \ {t}) \cup {timer}
                     /\ loadingInterval' = timer
                ELSE /\ pending' = pending \ {t}
                     /\ UNCHANGED loadingInterval
        ELSE /\ pending' = pending \ {t}
             /\ UNCHANGED <<stepClass, loaderTitle, loadingInterval>>

\* A pending stage-advancement timer fires.
TimerFire ==
    /\ UNCHANGED <<scoreVars, markdownVars>>
    /\ \E t \in pending : advanceStep(t)
    /\ alert' = ""
    /\ UNCHANGED <<display, analyzeBtnDisabled, errorMessage, showCalled>>
    /\ UNCHANGED <<fileVars, resultVars, requestVars>>

\* clearTimeout(handle): no effect on a handle that has fired or was never set
clearTimeout(timers, handle) == timers \ {handle}

----------------------------------------------------------------------------
(* Render results *)

Url(kind) == <<"https://x/", kind>>

LinkLabel(kind) ==
    CASE kind = "optimized_resume" -> "Optimized Resume"
      [] kind = "interview_prep" -> "Interview Prep PDF"
      [] kind = "cover_letter" -> "Cover Letter PDF"
      [] kind = "talking_points" -> "Talking Points PDF"

ShareLabel(kind) ==
    CASE kind = "optimized_resume" -> "Optimized Resume"
      [] kind = "interview_prep" -> "Interview Prep"
      [] kind = "cover_letter" -> "Cover Letter"
      [] kind = "talking_points" -> "Talking Points"

\* The two entries pushed for one artifact kind present in data.downloads.
linksFor(dl, kind) ==
    IF kind \in dl
    THEN << [tag |-> "a", url |-> Url(kind), label |-> LinkLabel(kind)],
            [tag |-> "button", url |-> Url(kind), label |-> ShareLabel(kind)] >>
    ELSE <<>>

downloadLinksCoverFirst(dl) ==
    linksFor(dl, "optimized_resume") \o linksFor(dl, "cover_letter")
        \o linksFor(dl, "interview_prep") \o linksFor(dl, "talking_points")

downloadLinks(dl) ==
    linksFor(dl, "optimized_resume") \o linksFor(dl, "interview_prep")
        \o linksFor(dl, "cover_letter") \o linksFor(dl, "talking_points")

\* renderResults(data) run on the current state: the values it leaves behind
\* and whether it threw (array methods called on a value that is no array).
renderResults(data) ==
    LET timers == clearTimeout(pending, loadingInterval)
        warnings == orEmptyArray(data.ats_warnings)
        p1 == IF warnings.length > 0
              THEN [panel EXCEPT !["atsWarnings"] = "block"]
              ELSE [panel EXCEPT !["atsWarnings"] = "none"]
        threw1 == warnings.length > 0 /\ warnings.kind # "array"
        questions == orEmptyArray(data.interview_questions)
        p2 == IF questions.length > 0
              THEN [p1 EXCEPT !["interview"] = "block"]
              ELSE p1
        threw2 == questions.length > 0 /\ questions.kind # "array"
        p3 == IF data.cover_letter # ""
              THEN [p2 EXCEPT !["coverLetter"] = "block"]
              ELSE p2
        links == downloadLinks(data.downloads)
        p4 == IF Len(links) > 0
              THEN [p3 EXCEPT !["downloadsBar"] = "block"]
              ELSE p3
    IN  IF threw1
        THEN [threw |-> TRUE, message |-> "warnings.map is not a function",
              pending |-> timers, panel |-> p1,
              downloadsButtons |-> downloadsButtons]
        ELSE IF threw2
        THEN [threw |-> TRUE, message |-> MapMessage,
              pending |-> timers, panel |-> p2,
              downloadsButtons |-> downloadsButtons]
        ELSE [threw |-> FALSE, message |-> "",
              pending |-> timers, panel |-> p4,
              downloadsButtons |-> IF Len(links) > 0 THEN links
                                   ELSE downloadsButtons]

----------------------------------------------------------------------------
(* Form submission *)

\* The alert of the validation step that rejects the submission.
validationAlert(file, jobTitle, jobDescription) ==
    IF file = NoFile THEN UploadAlert ELSE FillAlert

validSubmissionNoTrim(file, jobTitle, jobDescription) ==
    /\ file # NoFile
    /\ jobTitle # <<>> /\ jobDescription # <<>>

\* The two validation steps before the request is built.
validSubmission(file, jobTitle, jobDescription) ==
    /\ file # NoFile
    /\ trim(jobTitle) # <<>> /\ trim(jobDescription) # <<>>

formDataCheckboxValue(file, jobTitle, jobDescription, checked) ==
    [resume |-> file, job_title |-> trim(jobTitle),
     job_description |-> trim(jobDescription),
     auto_apply |-> IF checked THEN "on" ELSE ""]

formData(file, jobTitle, jobDescription, checked) ==
    [resume |-> file, job_title |-> trim(jobTitle),
     job_description |-> trim(jobDescription),
     auto_apply |-> IF checked THEN "true" ELSE "false"]

\* The submit handler up to its first await.
Submit ==
    /\ Clickable("upload")
    /\ ~analyzeBtnDisabled
    /\ fetchCount < MaxRuns
    /\ UNCHANGED <<scoreVars, markdownVars>>
    /\ \E jobTitle \in TextInputs, jobDescription \in TextInputs, checked \in BOOLEAN :
         IF ~validSubmission(selectedFile, jobTitle, jobDescription)
         THEN /\ alert' = validationAlert(selectedFile, jobTitle, jobDescription)
              /\ UNCHANGED <<display, analyzeBtnDisabled, errorMessage, showCalled>>
              /\ UNCHANGED <<fileVars, loaderVars, resultVars, requestVars>>
         ELSE /\ display' = showSection(display, "loading")
              /\ showCalled' = TRUE
              /\ analyzeBtnDisabled' = TRUE
              /\ startLoadingAnimation
              /\ inflight' = formData(selectedFile, jobTitle, jobDescription, checked)
              /\ fetchCount' = fetchCount + 1
              /\ submittedChecked' = checked
              /\ pc' = "awaitFetch"
              /\ outcome' = "none"
              /\ lastError' = ""
              /\ renderCount' = 0
              /\ lastRendered' = NullBody
              /\ alert' = ""
              /\ UNCHANGED <<responseOk, errorMessage, fileVars>>
              /\ UNCHANGED <<panel, downloadsButtons>>

catchBlockToUpload(message) ==
    /\ errorMessage' = message
    /\ display' = showSection(display, "upload")
    /\ showCalled' = TRUE

\* catch (err) { ... }
catchBlock(message) ==
    /\ errorMessage' = message
    /\ display' = showSection(display, "error")
    /\ showCalled' = TRUE

finallyBlockMissing ==
    /\ UNCHANGED analyzeBtnDisabled
    /\ pc' = "idle"

\* finally { ... }, after which the handler has returned
finallyBlock ==
    /\ analyzeBtnDisabled' = FALSE
    /\ pc' = "idle"

\* fetch() rejects: network/transport failure
FetchReject ==
    /\ pc = "awaitFetch"
    /\ UNCHANGED <<scoreVars, markdownVars>>
    /\ \E message \in TransportMessages : catchBlock(message)
    /\ finallyBlock
    /\ inflight' = NoRequest
    /\ submittedChecked' = FALSE
    /\ outcome' = "transport"
    /\ alert' = ""
    /\ UNCHANGED <<responseOk, fetchCount, lastError, fileVars, loaderVars, resultVars>>

\* fetch() resolves with a response of some status
FetchResolve ==
    /\ pc = "awaitFetch"
    /\ UNCHANGED <<scoreVars, markdownVars>>
    /\ \E ok \in BOOLEAN : responseOk' = ok
    /\ pc' = "awaitJson"
    /\ inflight' = NoRequest
    /\ submittedChecked' = FALSE
    /\ alert' = ""
    /\ UNCHANGED <<display, analyzeBtnDisabled, errorMessage, showCalled>>
    /\ UNCHANGED <<fetchCount, outcome, lastError, fileVars, loaderVars, resultVars>>

\* response.json() rejects: the body is not JSON
JsonReject ==
    /\ pc = "awaitJson"
    /\ UNCHANGED <<scoreVars, markdownVars>>
    /\ \E message \in ParseMessages : catchBlock(message)
    /\ finallyBlock
    /\ outcome' = "unparseable"
    /\ alert' = ""
    /\ UNCHANGED <<inflight, submittedChecked, responseOk, fetchCount, lastError>>
    /\ UNCHANGED <<fileVars, loaderVars, resultVars>>

\* What the server answered, as the HTTP contract classifies it: a body that
\* is no object, an error field, a non-2xx status, or a result.
responseKind(ok, data) ==
    IF data.null THEN "nullBody"
    ELSE IF data.error # "" THEN "errorField"
    ELSE IF ~ok THEN "status"
    ELSE "success"

FailureOutcomes == {"transport", "unparseable", "nullBody", "status", "errorField"}

isFailureStatusOnly(ok, data) == ~ok

\* if (!response.ok || data.error)
isFailure(ok, data) == ~ok \/ data.error # ""

failureMessageNoFallback(data) == data.error

failureMessageGenericOnly(data) == GenericMessage

\* data.error || 'Analysis failed'
failureMessage(data) == IF data.error # "" THEN data.error ELSE GenericMessage

\* response.json() resolves with the parsed body: the rest of the handler
JsonResolve ==
    /\ pc = "awaitJson"
    /\ UNCHANGED <<scoreVars, markdownVars>>
    /\ alert' = ""
    /\ finallyBlock
    /\ UNCHANGED <<inflight, submittedChecked, responseOk, fetchCount, fileVars>>
    /\ UNCHANGED <<loadingInterval, stepClass, loaderTitle>>
    /\ \E data \in Bodies :
         /\ outcome' = responseKind(responseOk, data)
         /\ lastError' = data.error
         /\ IF data.null
            THEN \* reading data.error throws a TypeError
                 /\ catchBlock(NullMessage)
                 /\ UNCHANGED <<pending, resultVars>>
            ELSE IF isFailure(responseOk, data)
            THEN /\ catchBlock(failureMessage(data))
                 /\ UNCHANGED <<pending, resultVars>>
            ELSE LET r == renderResults(data)
                 IN  /\ renderCount' = renderCount + 1
                     /\ lastRendered' = data
                     /\ pending' = r.pending
                     /\ panel' = r.panel
                     /\ downloadsButtons' = r.downloadsButtons
                     /\ IF r.threw
                        THEN catchBlock(r.message)
                        ELSE /\ display' = showSection(display, "results")
                             /\ showCalled' = TRUE
                             /\ UNCHANGED errorMessage

----------------------------------------------------------------------------
(* Restart / Retry *)

Restart ==
    /\ Clickable("results")
    /\ UNCHANGED <<scoreVars, markdownVars>>
    /\ display' = showSection(display, "upload")
    /\ showCalled' = TRUE
    /\ clearFile
    /\ panel' = [p \in Panels |-> "none"]
    /\ alert' = ""
    /\ lastRendered' = NullBody
    /\ UNCHANGED <<analyzeBtnDisabled, errorMessage, downloadsButtons, renderCount>>
    /\ UNCHANGED <<loaderVars, requestVars>>

RetryClearing ==
    /\ Clickable("error")
    /\ UNCHANGED <<scoreVars, markdownVars>>
    /\ display' = showSection(display, "upload")
    /\ showCalled' = TRUE
    /\ clearFile
    /\ alert' = ""
    /\ UNCHANGED <<analyzeBtnDisabled, errorMessage>>
    /\ UNCHANGED <<loaderVars, resultVars, requestVars>>

Retry ==
    /\ Clickable("error")
    /\ UNCHANGED <<scoreVars, markdownVars>>
    /\ display' = showSection(display, "upload")
    /\ showCalled' = TRUE
    /\ alert' = ""
    /\ UNCHANGED <<analyzeBtnDisabled, errorMessage>>
    /\ UNCHANGED <<fileVars, loaderVars, resultVars, requestVars>>

----------------------------------------------------------------------------
(* Specification *)

\* The page as loaded: the upload section shown with the empty drop zone, the
\* other sections and the conditional panels hidden, nothing selected, no run.
Init ==
    /\ selectedFile = NoFile
    /\ dropZoneContent = "flex"
    /\ fileSelected = "none"
    /\ fileName = <<>>
    /\ display = [s \in Sections |-> IF s = "upload" THEN "block" ELSE "none"]
    /\ analyzeBtnDisabled = FALSE
    /\ pc = "idle"
    /\ inflight = NoRequest
    /\ responseOk = FALSE
    /\ fetchCount = 0
    /\ pending = {}
    /\ loadingInterval = NoTimer
    /\ stepClass = [i \in 0..(NumSteps - 1) |-> {}]
    /\ loaderTitle = ""
    /\ panel = [p \in Panels |-> "none"]
    /\ downloadsButtons = <<>>
    /\ errorMessage = ""
    /\ outcome = "none"
    /\ lastError = ""
    /\ renderCount = 0
    /\ lastRendered = NullBody
    /\ showCalled = FALSE
    /\ alert = ""
    /\ submittedChecked = FALSE
    /\ scoreInput = NoScore
    /\ targetScore = 0
    /\ color = ""
    /\ strokeDashoffset = circumference
    /\ strokePending = FALSE
    /\ current = 0
    /\ valueText = 0
    /\ counter = FALSE
    /\ ticks = 0
    /\ closures = <<>>
    /\ text = <<>>
    /\ html = <<>>
    /\ formatted = FALSE

Next ==
    \/ SelectFile
    \/ RemoveFile
    \/ Submit
    \/ FetchReject
    \/ FetchResolve
    \/ JsonReject
    \/ JsonResolve
    \/ TimerFire
    \/ Restart
    \/ Retry

Spec == Init /\ [][Next]_vars

TypeOK ==
    /\ selectedFile \in FileNames \cup {NoFile}
    /\ display \in [Sections -> {"none", "block"}]
    /\ analyzeBtnDisabled \in BOOLEAN
    /\ pc \in {"idle", "awaitFetch", "awaitJson"}
    /\ fetchCount \in 0..MaxRuns
    /\ panel \in [Panels -> {"none", "block"}]

----------------------------------------------------------------------------
(* Score ring animation: one rendering of one ring, from the page as loaded *)

\* x || 0 for a score field
orZero(score) == IF score = NoScore THEN 0 ELSE score

tierExclusive(score) ==
    IF score > 80 THEN "var(--score-excellent)"
    ELSE IF score > 60 THEN "var(--score-good)"
    ELSE IF score > 40 THEN "var(--score-average)"
    ELSE "var(--score-poor)"

\* Color based on score
tier(score) ==
    IF score >= 80 THEN "var(--score-excellent)"
    ELSE IF score >= 60 THEN "var(--score-good)"
    ELSE IF score >= 40 THEN "var(--score-average)"
    ELSE "var(--score-poor)"

\* circumference - (circumference * targetScore / 100), in 1/10000
offset(score) == circumference - (circumference * score) \div 100

\* Math.round of a value given in 1/duration
round(c) == (2 * c + duration) \div (2 * duration)

counterStepStrict(cur, target) ==
    LET next == cur + frame * target
    IN  IF next > duration * target
        THEN [current |-> duration * target, running |-> FALSE]
        ELSE [current |-> next, running |-> TRUE]

\* One callback of the interval: current += increment, clamped at the target.
\* Values are exact multiples of 1/duration; the double arithmetic of the code
\* stays within 1e-12 of them, and no exact value is a rounding tie or equals
\* the target before the last callback, so the comparisons agree.
counterStep(cur, target) ==
    LET next == cur + frame * target
    IN  IF next >= duration * target
        THEN [current |-> duration * target, running |-> FALSE]
        ELSE [current |-> next, running |-> TRUE]

\* animateScore(ringEl, valueEl, score || 0) up to its return
AnimateScore ==
    /\ color = ""
    /\ UNCHANGED <<controllerVars, markdownVars>>
    /\ \E score \in Scores \cup {NoScore} :
         /\ scoreInput' = score
         /\ targetScore' = orZero(score)
         /\ color' = tier(orZero(score))
    /\ strokePending' = TRUE
    /\ current' = 0
    /\ counter' = TRUE
    /\ UNCHANGED <<strokeDashoffset, valueText, ticks, closures>>

\* The callback of the 200 ms timeout.
StrokeTimer ==
    /\ strokePending
    /\ UNCHANGED <<controllerVars, markdownVars>>
    /\ strokeDashoffset' = offset(targetScore)
    /\ strokePending' = FALSE
    /\ UNCHANGED <<scoreInput, targetScore, color, current, valueText, counter, ticks,
                   closures>>

\* The callback of the 16 ms interval.
Tick ==
    /\ counter
    /\ UNCHANGED <<controllerVars, markdownVars>>
    /\ LET step == counterStep(current, targetScore)
       IN  /\ current' = step.current
           /\ counter' = step.running
           /\ valueText' = round(step.current)
    /\ ticks' = ticks + 1
    /\ UNCHANGED <<scoreInput, targetScore, color, strokeDashoffset, strokePending,
                   closures>>

ScoreNext ==
    \/ AnimateScore
    \/ StrokeTimer
    \/ Tick

\* The interval keeps firing until it is cleared.
ScoreSpec == Init /\ [][ScoreNext]_vars /\ WF_vars(Tick)

----------------------------------------------------------------------------
(* Score ring animation: successive renderings into the same elements.  A   *)
(* call of animateScore clears neither the timeout nor the interval of the  *)
(* call before it, so their callbacks keep writing to the same elements.    *)

\* The score of one of the six fields in the results rendered.
RenderedScores == {NoScore, 40, 100}

\* What the callbacks of the latest call still hold.
Closure ==
    [targetScore |-> targetScore, current |-> current, counter |-> counter,
     strokePending |-> strokePending]

\* renderResults calls animateScore(ringEl, valueEl, score || 0) once more
RenderScore ==
    /\ Len(closures) + 1 < MaxRenders \/ color = ""
    /\ UNCHANGED <<controllerVars, markdownVars>>
    /\ closures' = IF color = "" THEN closures ELSE Append(closures, Closure)
    /\ \E score \in RenderedScores :
         /\ scoreInput' = score
         /\ targetScore' = orZero(score)
         /\ color' = tier(orZero(score))
    /\ strokePending' = TRUE
    /\ current' = 0
    /\ counter' = TRUE
    /\ ticks' = 0
    /\ UNCHANGED <<strokeDashoffset, valueText>>

\* The callback of the 200 ms timeout of an earlier call.
EarlierStrokeTimer ==
    /\ UNCHANGED <<controllerVars, markdownVars>>
    /\ \E i \in DOMAIN closures :
         /\ closures[i].strokePending
         /\ strokeDashoffset' = offset(closures[i].targetScore)
         /\ closures' = [closures EXCEPT ![i].strokePending = FALSE]
    /\ UNCHANGED <<scoreInput, targetScore, color, strokePending, current,
                   valueText, counter, ticks>>

\* The callback of the 16 ms interval of an earlier call.
EarlierTick ==
    /\ UNCHANGED <<controllerVars, markdownVars>>
    /\ \E i \in DOMAIN closures :
         /\ closures[i].counter
         /\ LET step == counterStep(closures[i].current, closures[i].targetScore)
            IN  /\ closures' = [closures EXCEPT ![i].current = step.current,
                                                ![i].counter = step.running]
                /\ valueText' = round(step.current)
    /\ UNCHANGED <<scoreInput, targetScore, color, strokeDashoffset, strokePending,
                   current, counter, ticks>>

RenderNext ==
    \/ RenderScore
    \/ StrokeTimer
    \/ Tick
    \/ EarlierStrokeTimer
    \/ EarlierTick

RenderSpec == Init /\ [][RenderNext]_vars

----------------------------------------------------------------------------
(* Markdown formatting.  A text is a sequence whose elements are single     *)
(* characters or runs of letters that no step looks into ("script", "a",    *)
(* the name of a tag or of an entity).                                      *)

Fragments ==
    { <<"<">>, <<">">>, <<"&">>, <<"script">>, <<"a">>, <<"*", "*">>, <<"\n">>,
      <<"#", " ">>, <<"#", "#", " ">>, <<"#", "#", "#", " ">>,
      <<"-", " ", "a">>, <<"1", ".", " ", "a">> }

RECURSIVE TextsOf(_)
TextsOf(n) ==
    IF n = 0 THEN {<<>>}
    ELSE {t \o f : t \in TextsOf(n - 1), f \in Fragments}

\* The texts formatMarkdown is called with.
Texts == UNION {TextsOf(n) : n \in 0..MaxParts}

Digits == {"0", "1", "2", "3", "4", "5", "6", "7", "8", "9"}

RECURSIVE Flatten(_)
Flatten(ss) == IF ss = <<>> THEN <<>> ELSE Head(ss) \o Flatten(Tail(ss))

Open(name) == <<"<", name, ">">>
Close(name) == <<"<", "/", name, ">">>

startsWith(s, prefix) ==
    /\ Len(s) >= Len(prefix)
    /\ SubSeq(s, 1, Len(prefix)) = prefix

escapeHtmlNone(t) == t

\* The innerHTML of an element whose textContent is t.
escapeHtml(t) ==
    Flatten([i \in DOMAIN t |->
                CASE t[i] = "&" -> <<"&", "amp", ";">>
                  [] t[i] = "<" -> <<"&", "lt", ";">>
                  [] t[i] = ">" -> <<"&", "gt", ";">>
                  [] OTHER -> <<t[i]>>])

\* The lines ^ and $ delimit under the m flag.
RECURSIVE splitLines(_)
splitLines(s) ==
    LET breaks == {i \in DOMAIN s : s[i] = "\n"}
    IN  IF breaks = {} THEN <<s>>
        ELSE LET i == CHOOSE b \in breaks : \A c \in breaks : b <= c
             IN  <<SubSeq(s, 1, i - 1)>> \o splitLines(SubSeq(s, i + 1, Len(s)))

\* replace(/^#{level} (.+)$/gm, '<hN>$1</hN>') on one line
header(line, level, name) ==
    LET marks == [i \in 1..level |-> "#"] \o <<" ">>
    IN  IF startsWith(line, marks) /\ Len(line) > Len(marks)
        THEN Open(name) \o SubSeq(line, Len(marks) + 1, Len(line)) \o Close(name)
        ELSE line

\* replace(/\*\*(.+?)\*\*/g, '<strong>$1</strong>') on one line
RECURSIVE bold(_)
bold(s) ==
    LET closers == {j \in 4..(Len(s) - 1) : s[j] = "*" /\ s[j + 1] = "*"}
    IN  IF s = <<>> THEN <<>>
        ELSE IF Len(s) >= 2 /\ s[1] = "*" /\ s[2] = "*" /\ closers # {}
        THEN LET j == CHOOSE c \in closers : \A d \in closers : c <= d
             IN  Open("strong") \o SubSeq(s, 3, j - 1) \o Close("strong")
                    \o bold(SubSeq(s, j + 2, Len(s)))
        ELSE <<Head(s)>> \o bold(Tail(s))

\* replace(/^- (.+)$/gm, '<li>$1</li>') on one line
dashItem(line) ==
    IF startsWith(line, <<"-", " ">>) /\ Len(line) > 2
    THEN Open("li") \o SubSeq(line, 3, Len(line)) \o Close("li")
    ELSE line

\* replace(/^(\d+)\. (.+)$/gm, '<li>$2</li>') on one line
numberedItem(line) ==
    LET d == Cardinality({i \in DOMAIN line :
                            \A j \in 1..i : line[j] \in Digits})
    IN  IF d >= 1 /\ Len(line) > d + 2 /\ line[d + 1] = "." /\ line[d + 2] = " "
        THEN Open("li") \o SubSeq(line, d + 3, Len(line)) \o Close("li")
        ELSE line

\* The six line-wise replacements, in the order of the code.
formatLine(line) ==
    numberedItem(dashItem(bold(
        header(header(header(line, 3, "h3"), 2, "h2"), 1, "h1"))))

\* replace(/((?:<li>.*<\/li>\n?)+)/g, '<ul>$1</ul>'): <li> only ever starts a
\* line that ends in </li>, so a match is a maximal run of such lines, with
\* the newline after each of them.
wrapLists(lines) ==
    LET n == Len(lines)
        isLi(i) == i \in 1..n /\ startsWith(lines[i], Open("li"))
        out(i) ==
            (IF isLi(i) /\ ~isLi(i - 1) THEN Open("ul") ELSE <<>>)
                \o lines[i]
                \o (IF i < n THEN <<"\n">> ELSE <<>>)
                \o (IF isLi(i) /\ ~isLi(i + 1) THEN Close("ul") ELSE <<>>)
    IN  Flatten([i \in 1..n |-> out(i)])

\* replace(/\n\n/g, '</p><p>')
RECURSIVE paragraphs(_)
paragraphs(s) ==
    IF s = <<>> THEN <<>>
    ELSE IF Len(s) >= 2 /\ s[1] = "\n" /\ s[2] = "\n"
    THEN Close("p") \o Open("p") \o paragraphs(SubSeq(s, 3, Len(s)))
    ELSE <<Head(s)>> \o paragraphs(Tail(s))

\* replace(/\n/g, '<br>')
lineBreaks(s) ==
    Flatten([i \in DOMAIN s |-> IF s[i] = "\n" THEN Open("br") ELSE <<s[i]>>])

formatMarkdown(t) ==
    LET escaped == escapeHtml(t)
        lines == splitLines(escaped)
        replaced == [i \in DOMAIN lines |-> formatLine(lines[i])]
        wrapped == wrapLists(replaced)
    IN  lineBreaks(Open("p") \o paragraphs(wrapped) \o Close("p"))

\* A call of formatMarkdown.
FormatMarkdown ==
    /\ ~formatted
    /\ UNCHANGED <<controllerVars, scoreVars>>
    /\ \E t \in Texts :
         /\ text' = t
         /\ html' = formatMarkdown(t)
    /\ formatted' = TRUE

MarkdownNext ==
    \/ FormatMarkdown

MarkdownSpec == Init /\ [][MarkdownNext]_vars

----------------------------------------------------------------------------
(* Properties *)

Visible(section) == display[section] = "block"

\* A JSON value that is present and has at least one element.
NonEmpty(v) == v.kind # "absent" /\ v.length > 0

\* C1: once a submission has resolved with a failure and the Error view is
\* shown, no stage-advancement timer scheduled for that submission is pending.
C1_FailureCancelsTimers ==
    (pc = "idle" /\ outcome \in FailureOutcomes /\ Visible("error"))
        => \A t \in pending : t.run # fetchCount

\* C2: after renderResults has run for a successful response, no
\* stage-advancement timer is pending, whatever submissions came before.
C2_NoTimerAfterRender ==
    (pc = "idle" /\ outcome = "success" /\ renderCount = 1) => pending = {}

\* C3: no closure's stage index goes past 4 (a pending advancement belongs to
\* a closure whose currentStep is at most 3, so none is scheduled once the
\* fifth stage is active), and the fifth stage is never marked done.
C3_FinalStageHolds ==
    /\ \A t \in pending : t.step < NumSteps - 1
    /\ "done" \notin stepClass[NumSteps - 1]

\* The fifth stage is active, the request is still unresolved, nothing pending.
C3_Witness ==
    /\ pc = "awaitFetch"
    /\ "active" \in stepClass[NumSteps - 1]
    /\ pending = {}

\* C4: once showSection has been called, exactly one of the four sections is
\* visible.
C4_ExactlyOneVisible ==
    showCalled => Cardinality({s \in Sections : Visible(s)}) = 1

\* Back on the upload section by restart, after a rendered result.
C4_Witness ==
    /\ showCalled
    /\ Visible("upload")
    /\ outcome = "success"
    /\ renderCount = 1

\* C5: the submit control is disabled exactly while a request is in flight:
\* disabled from acceptance to completion, enabled after every completion.
C5_SubmitEnabledWhenIdle ==
    analyzeBtnDisabled <=> pc # "idle"

\* A 2xx result whose rendering threw: Error view, control enabled again.
C5_Witness ==
    /\ pc = "idle"
    /\ outcome = "success"
    /\ Visible("error")
    /\ errorMessage = MapMessage
    /\ ~analyzeBtnDisabled

\* C6: a submit rejected by validation (it raises one of the two validation
\* alerts) leaves section, submit control, selected document, stage state and
\* request state unchanged; and every request issued carries a document and a
\* non-empty trimmed title and description.
C6_RejectedSubmitNoEffect ==
    [][ /\ alert' \in {UploadAlert, FillAlert}
            => UNCHANGED <<display, analyzeBtnDisabled, fileVars, loaderVars,
                           pc, inflight, fetchCount>>
        /\ fetchCount' # fetchCount
            => /\ inflight'.resume # NoFile
               /\ inflight'.job_title # <<>>
               /\ inflight'.job_description # <<>>
      ]_vars

\* A submit with a document selected was rejected for its text fields.
C6_Witness ==
    /\ alert = FillAlert
    /\ selectedFile # NoFile
    /\ Visible("upload")
    /\ pc = "idle"

\* C7: when the parsed body carries a truthy error field, whatever the status,
\* the handler ends in the Error view showing exactly that field, without a
\* renderResults call and with the submit control enabled.
C7_ErrorFieldShown ==
    [][ (pc = "awaitJson" /\ pc' = "idle" /\ lastError' # "")
            => /\ display' = [s \in Sections |->
                                IF s = "error" THEN "block" ELSE "none"]
               /\ errorMessage' = lastError'
               /\ renderCount' = 0
               /\ UNCHANGED resultVars
               /\ ~analyzeBtnDisabled'
      ]_vars

\* A 2xx response with an error field ended in the Error view.
C7_Witness ==
    /\ responseOk
    /\ outcome = "errorField"
    /\ Visible("error")
    /\ errorMessage = "bad file"

\* C8 as claimed: every failure without a server-supplied message shows the
\* generic "Analysis failed".
C8_GenericMessage ==
    (Visible("error") /\ outcome \in {"transport", "unparseable", "status"})
        => errorMessage = GenericMessage

\* C8 as amended: a non-2xx status with a parsed object body without an error
\* field shows the generic "Analysis failed"; a transport failure or an
\* unparseable body shows the message of the error fetch() or json() raised.
C8_FallbackMessage ==
    Visible("error")
        => /\ outcome = "status" => errorMessage = GenericMessage
           /\ outcome = "transport" => errorMessage \in TransportMessages
           /\ outcome = "unparseable" => errorMessage \in ParseMessages

\* A non-2xx response without an error field ended in the Error view.
C8_Witness ==
    /\ outcome = "status"
    /\ ~responseOk
    /\ lastError = ""
    /\ Visible("error")

\* C9: a submission that got a result has had exactly one renderResults call
\* once its handler returned; a failed submission has had none and does not
\* show Results; and when Results is visible the one call has completed (the
\* warnings panel reflects the rendered result).
C9_RenderOnceOnSuccess ==
    /\ (pc = "idle" /\ outcome = "success") => renderCount = 1
    /\ outcome \in FailureOutcomes => (renderCount = 0 /\ ~Visible("results"))
    /\ Visible("results")
        => /\ outcome = "success"
           /\ renderCount = 1
           /\ panel["atsWarnings"] = "block" <=> NonEmpty(lastRendered.ats_warnings)

\* Results shown for the second submission, after one render call.
C9_Witness ==
    /\ Visible("results")
    /\ fetchCount = 2
    /\ renderCount = 1
    /\ NonEmpty(lastRendered.ats_warnings)

\* C10: whenever Results is visible, each conditional panel is visible iff the
\* most recently rendered result has the corresponding field present and
\* non-empty.
C10_PanelsMatchResult ==
    Visible("results")
        => /\ panel["atsWarnings"] = "block" <=> NonEmpty(lastRendered.ats_warnings)
           /\ panel["interview"] = "block" <=> NonEmpty(lastRendered.interview_questions)
           /\ panel["coverLetter"] = "block" <=> lastRendered.cover_letter # ""
           /\ panel["downloadsBar"] = "block" <=> lastRendered.downloads # {}

\* Callbacks an interval needs to carry current from 0 to the target.
MaxTicks == (duration + frame - 1) \div frame

\* C11: for an integer target in 0..100 every value the counter displays is
\* between 0 and the target and not below the one it displayed before, the
\* value displayed by the callback that stops the counter is the target, the
\* counter runs for at most MaxTicks callbacks, and a running counter stops.
C11_CounterReachesTarget ==
    /\ [][ (ticks' # ticks /\ scoreInput \in Scores)
              => /\ valueText' \in 0..scoreInput
                 /\ ticks > 0 => valueText' >= valueText
                 /\ ~counter' => valueText' = scoreInput
                 /\ ticks' <= MaxTicks
         ]_vars
    /\ counter ~> ~counter

\* The counter of a target of 100 has stopped, showing 100.
C11_Witness ==
    /\ scoreInput = 100
    /\ ~counter
    /\ ticks = MaxTicks
    /\ valueText = 100

\* C12: the tier animateScore chose is excellent iff the score is at least 80,
\* good iff it is in 60..79, average iff in 40..59, poor iff below 40; an
\* absent score is animated as 0 and gets the poor tier.
C12_TierByLowerBound ==
    color # ""
        => /\ scoreInput = NoScore
                => (targetScore = 0 /\ color = "var(--score-poor)")
           /\ scoreInput \in Scores
                => /\ color = "var(--score-excellent)" <=> scoreInput >= 80
                   /\ color = "var(--score-good)"
                        <=> (scoreInput >= 60 /\ scoreInput < 80)
                   /\ color = "var(--score-average)"
                        <=> (scoreInput >= 40 /\ scoreInput < 60)
                   /\ color = "var(--score-poor)" <=> scoreInput < 40

\* A score on the boundary of the excellent tier, the ring drawn.
C12_Witness ==
    /\ scoreInput = 80
    /\ color = "var(--score-excellent)"
    /\ ~strokePending
    /\ strokeDashoffset = circumference \div 5

\* C13: a step issues a request exactly when it is an accepted submit (the
\* one step that takes the page from Upload to Loading), it issues one, and
\* the request's auto_apply field is "true" when the flag was checked and
\* "false" when it was not; no other step issues or alters a request.
C13_OneRequestPerSubmit ==
    [][ /\ fetchCount' \in {fetchCount, fetchCount + 1}
        /\ (fetchCount' = fetchCount + 1)
              <=> (Visible("upload") /\ display'["loading"] = "block")
        /\ fetchCount' = fetchCount + 1
              => /\ inflight' # NoRequest
                 /\ submittedChecked' => inflight'.auto_apply = "true"
                 /\ ~submittedChecked' => inflight'.auto_apply = "false"
        /\ fetchCount' = fetchCount => inflight' \in {inflight, NoRequest}
      ]_vars

\* The second submission, with the flag checked, is in flight.
C13_Witness ==
    /\ fetchCount = 2
    /\ pc = "awaitFetch"
    /\ submittedChecked
    /\ inflight.auto_apply = "true"

\* The last five characters of a name are exactly ".docx".
HasDocxSuffix(name) ==
    /\ Len(name) >= 5
    /\ \A i \in 1..5 : name[Len(name) - 5 + i] = DocxSuffix[i]

\* C14: a handleFile call that raises the .docx alert leaves the selection and
\* both sub-views as they were; a name put into the selection is shown in the
\* selected-file view, replacing whatever was selected; the selection is one
\* name or none, and a selected name ends in ".docx" exactly.
C14_OnlyDocxSelected ==
    /\ [][ /\ alert' = DocxAlert => UNCHANGED fileVars
           /\ (selectedFile' # selectedFile /\ selectedFile' # NoFile)
                 => /\ HasDocxSuffix(selectedFile')
                    /\ fileName' = selectedFile'
                    /\ fileSelected' = "flex"
                    /\ dropZoneContent' = "none"
         ]_vars
    /\ [](selectedFile # NoFile
            => (selectedFile \in FileNames /\ HasDocxSuffix(selectedFile)))

\* b.docx is selected and a later file was refused.
C14_Witness ==
    /\ selectedFile = <<"b", ".", "d", "o", "c", "x">>
    /\ fileName = selectedFile
    /\ fileSelected = "flex"
    /\ alert = DocxAlert

\* The entries of the downloads area for the artifact kind at index k.
EntryCount(tag, k) ==
    Cardinality({i \in DOMAIN downloadsButtons :
                    /\ downloadsButtons[i].tag = tag
                    /\ downloadsButtons[i].url = Url(Kinds[k])})

\* The downloads area holds, for the kinds of dl in the fixed order, one link
\* followed by one share action, and nothing else.
DownloadsAreaShows(dl) ==
    /\ Len(downloadsButtons) = 2 * Cardinality(dl)
    /\ \A k \in DOMAIN Kinds :
         /\ EntryCount("a", k) = IF Kinds[k] \in dl THEN 1 ELSE 0
         /\ EntryCount("button", k) = IF Kinds[k] \in dl THEN 1 ELSE 0
    /\ \A i, j \in DOMAIN downloadsButtons :
         i < j => \E k, l \in DOMAIN Kinds :
                    /\ downloadsButtons[i].url = Url(Kinds[k])
                    /\ downloadsButtons[j].url = Url(Kinds[l])
                    /\ k <= l
                    /\ k = l => /\ downloadsButtons[i].tag = "a"
                                /\ downloadsButtons[j].tag = "button"

\* C15 as claimed: after renderResults has returned, the downloads area holds
\* exactly the entries of the kinds present in the rendered result, whatever
\* was rendered before.
C15_DownloadsMatchResult ==
    Visible("results") => DownloadsAreaShows(lastRendered.downloads)

\* C15 as amended: after renderResults has returned for a result with at
\* least one artifact, the downloads bar is shown and its area holds exactly
\* the entries of the kinds present, in the fixed order; for a result without
\* artifacts the bar is hidden and renderResults leaves its content untouched.
C15_DownloadsShownMatchResult ==
    /\ [](Visible("results")
            => IF lastRendered.downloads # {}
               THEN /\ panel["downloadsBar"] = "block"
                    /\ DownloadsAreaShows(lastRendered.downloads)
               ELSE panel["downloadsBar"] = "none")
    /\ [][ (Visible("loading") /\ display'["results"] = "block"
                /\ lastRendered'.downloads = {})
              => UNCHANGED downloadsButtons ]_vars

\* A result without artifacts is shown after one that had some: the bar is
\* hidden, the earlier entries are still in it.
C15_Witness ==
    /\ Visible("results")
    /\ fetchCount = 2
    /\ lastRendered.downloads = {}
    /\ downloadsButtons # <<>>
    /\ panel["downloadsBar"] = "none"

\* C17: at most one stage-advancement timer is pending.
C17_AtMostOneTimer ==
    Cardinality(pending) <= 1

\* The stage display for active index k.
StagePattern(k) ==
    [i \in 0..(NumSteps - 1) |->
        IF i < k THEN {"done"} ELSE IF i = k THEN {"active"} ELSE {}]

\* C18: while Loading is visible one stage is active, the stages before it
\* are done, the stages after it are unmarked and the title is the active
\* stage's label.
C18_OneActiveStage ==
    Visible("loading")
        => \E k \in 0..(NumSteps - 1) :
              /\ stepClass = StagePattern(k)
              /\ loaderTitle = At(titles, k)

\* C19: the visible section changes only from Upload to Loading by an accepted
\* submit, from Loading to Results when the handler ends with a rendered
\* result, from Loading to Error when the handler ends with a failure (a
\* failure response, or a rendering that threw), from Results to Upload and
\* from Error to Upload by a click that leaves the handler alone; a request is
\* issued only when none is in flight and the handler is not running.
C19_SectionTransitions ==
    [][ /\ display' # display
          => \/ /\ Visible("upload") /\ display'["loading"] = "block"
                /\ pc = "idle" /\ pc' = "awaitFetch"
                /\ fetchCount' = fetchCount + 1
             \/ /\ Visible("loading") /\ display'["results"] = "block"
                /\ pc = "awaitJson" /\ pc' = "idle"
                /\ outcome' = "success"
             \/ /\ Visible("loading") /\ display'["error"] = "block"
                /\ pc # "idle" /\ pc' = "idle"
                /\ outcome' \in FailureOutcomes \/ renderCount' = 1
             \/ /\ Visible("results") /\ display'["upload"] = "block"
                /\ UNCHANGED <<pc, pending, fetchCount>>
             \/ /\ Visible("error") /\ display'["upload"] = "block"
                /\ UNCHANGED <<pc, pending, fetchCount>>
        /\ (Visible("loading") /\ pc' = pc) => UNCHANGED display
        /\ fetchCount' # fetchCount => (pc = "idle" /\ inflight = NoRequest)
        /\ inflight' # NoRequest => pc' = "awaitFetch"
      ]_vars

\* Loading of the second submission, its request in flight, a stage timer of
\* it already fired.
C19_Witness ==
    /\ Visible("loading")
    /\ fetchCount = 2
    /\ inflight # NoRequest
    /\ "done" \in stepClass[0]

\* C20: the selection becomes empty by a restart and by a clear-file (the
\* step that hides the selected-file view) and by nothing else; a retry step
\* leaves the selection and its views unchanged; a step of the submit handler
\* (acceptance, completion) and a timer firing leave the selection unchanged.
C20_SelectionCleared ==
    [][ /\ (selectedFile # NoFile /\ selectedFile' = NoFile)
              => \/ Visible("results") /\ display'["upload"] = "block"
                 \/ /\ Visible("upload") /\ UNCHANGED display
                    /\ fileSelected = "flex" /\ fileSelected' = "none"
        /\ (Visible("results") /\ display'["upload"] = "block")
              => selectedFile' = NoFile
        /\ (fileSelected = "flex" /\ fileSelected' = "none")
              => selectedFile' = NoFile
        /\ (Visible("error") /\ display'["upload"] = "block")
              => UNCHANGED fileVars
        /\ pc' # pc => UNCHANGED fileVars
        /\ pending' # pending => UNCHANGED fileVars
      ]_vars

\* Back on Upload by retry after a failed submission, the document still
\* selected.
C20_Witness ==
    /\ Visible("upload")
    /\ outcome \in FailureOutcomes
    /\ fetchCount = 1
    /\ selectedFile # NoFile
    /\ fileName = selectedFile
    /\ ~analyzeBtnDisabled

AllowedTags == {"h1", "h2", "h3", "strong", "li", "ul", "p", "br"}

Occurrences(x, s) == Cardinality({i \in DOMAIN s : s[i] = x})

\* C16: in the text formatMarkdown returns every "<" opens, and every ">"
\* closes, an opening or closing tag whose name is one of h1, h2, h3, strong,
\* li, ul, p, br; every "&" starts one of the entities amp, lt, gt; and each
\* "<", ">" and "&" of the input has become one entity.
C16_OnlyOwnTags ==
    formatted
        => /\ \A i \in DOMAIN html :
                /\ html[i] = "<"
                     => \/ /\ i + 2 <= Len(html)
                           /\ html[i + 1] \in AllowedTags
                           /\ html[i + 2] = ">"
                        \/ /\ i + 3 <= Len(html)
                           /\ html[i + 1] = "/"
                           /\ html[i + 2] \in AllowedTags
                           /\ html[i + 3] = ">"
                /\ html[i] = ">"
                     => /\ i >= 3
                        /\ html[i - 1] \in AllowedTags
                        /\ \/ html[i - 2] = "<"
                           \/ i >= 4 /\ html[i - 2] = "/" /\ html[i - 3] = "<"
                /\ html[i] = "&"
                     => /\ i + 2 <= Len(html)
                        /\ html[i + 1] \in {"amp", "lt", "gt"}
                        /\ html[i + 2] = ";"
           /\ Occurrences("lt", html) = Occurrences("<", text)
           /\ Occurrences("gt", html) = Occurrences(">", text)
           /\ Occurrences("amp", html) = Occurrences("&", text)

\* The text <script> came back as escaped text inside one paragraph.
C16_Witness ==
    /\ formatted
    /\ text = <<"<", "script", ">">>
    /\ html = <<"<", "p", ">", "&", "lt", ";", "script", "&", "gt", ";",
                "<", "/", "p", ">">>

\* Every interval started on the score element has been cleared.
AllCountersStopped ==
    /\ color # ""
    /\ ~counter
    /\ \A i \in DOMAIN closures : ~closures[i].counter

\* C21: once every counter on a score element has stopped, the element shows
\* the score of the result rendered last (0 for an absent score).
C21_LatestScoreShown ==
    AllCountersStopped
        => valueText = IF scoreInput = NoScore THEN 0 ELSE scoreInput

\* A line "- x..." or "<digits>. x...".
IsListLine(line) ==
    \/ /\ Len(line) > 2
       /\ line[1] = "-" /\ line[2] = " "
    \/ \E d \in 1..Len(line) :
          /\ \A j \in 1..d : line[j] \in Digits
          /\ Len(line) > d + 2
          /\ line[d + 1] = "." /\ line[d + 2] = " "

\* The positions in h where the tag <name> starts.
TagStarts(h, name) ==
    {i \in DOMAIN h : /\ i + 2 <= Len(h)
                      /\ h[i] = "<" /\ h[i + 1] = name /\ h[i + 2] = ">"}

\* The positions in h where the tag </name> starts.
EndTagStarts(h, name) ==
    {i \in DOMAIN h : /\ i + 3 <= Len(h)
                      /\ h[i] = "<" /\ h[i + 1] = "/"
                      /\ h[i + 2] = name /\ h[i + 3] = ">"}

\* C22: for a text of two or more lines, all of them list lines, the text
\* formatMarkdown returns has one <ul> ... </ul>, with one <li> per line
\* inside it and no <br>, <p> or </p> inside it.
C22_ListCoalesced ==
    LET lines == splitLines(text)
    IN  (/\ formatted
         /\ Len(lines) >= 2
         /\ \A i \in DOMAIN lines : IsListLine(lines[i]))
            => /\ Cardinality(TagStarts(html, "ul")) = 1
               /\ Cardinality(EndTagStarts(html, "ul")) = 1
               /\ \E o \in TagStarts(html, "ul"), c \in EndTagStarts(html, "ul") :
                    LET inside == {i \in DOMAIN html : o < i /\ i < c}
                    IN  /\ Cardinality(TagStarts(html, "li") \cap inside)
                              = Len(lines)
                        /\ TagStarts(html, "br") \cap inside = {}
                        /\ TagStarts(html, "p") \cap inside = {}
                        /\ EndTagStarts(html, "p") \cap inside = {}

====
